---- MODULE Spec2Model ----
(***************************************************************************)
(* Model of the Merkle page storage of svm                                 *)
(* (crates/svm-storage/src/merkle_page_storage.rs) over the in-memory      *)
(* key-value store (crates/svm-kv/src/memory.rs).                          *)
(*                                                                         *)
(* Hashes are modelled as injective constructors: a page hash is the tuple *)
(* <<"PH", addr, page_idx, data>> and a state hash the tuple <<"KH", v>>,  *)
(* each standing for 32 bytes.  Page data are byte strings written one     *)
(* character per byte: "0" is the byte 0x00, "abc" the bytes [10, 20, 30]  *)
(* and "def" the bytes [40, 50, 60] of the tests.  Option<T> is a sequence *)
(* of length 0 (None) or 1 (Some).                                         *)
(***************************************************************************)
EXTENDS Integers, Sequences, FiniteSets, TLC

\* ---------------------------------------------------------------- bounds
MaxPages == 2
MaxOps == 6
MaxBatch == 3
MaxSliceOps == 5
MaxTxOps == 5
MaxContractOps == 5
MaxBytes == 3
MaxBufLen == 3
MaxWrites == 3

Storages == {"s1", "s2"}
Addrs == {17}
PagesCounts == 1..MaxPages

Zeros32 == "00000000000000000000000000000000"
PageData == {Zeros32, "abc", "def"}

None == <<>>
Some(v) == <<v>>

\* ---------------------------------------------------------------- hashers
PH_hash(addr, page_idx, page_data) == <<"PH", addr, page_idx, page_data>>

KH_hash(bytes) == <<"KH", bytes>>

State_empty == <<"ZERO">>

UnknownState == KH_hash(<<PH_hash(0, 0, "")>>)

\* ---------------------------------------------------------------- MerklePage
Uninitialized == [tag |-> "Uninitialized", ph |-> <<>>, data |-> ""]
NotModified(ph) == [tag |-> "NotModified", ph |-> ph, data |-> ""]
Modified(ph, data) == [tag |-> "Modified", ph |-> ph, data |-> data]

NoStorage ==
  [alive |-> FALSE, state |-> State_empty, addr |-> 0, pages |-> <<>>, pages_count |-> 0]

\* the call of store in progress, if any: the storage that commits, the batch,
\* the position of the loop over it, and the state the commit has computed
IoIdle ==
  [borrowed |-> FALSE, s |-> "s1", entries |-> <<>>, next |-> 1, new_state |-> State_empty]

\* ---------------------------------------------------------------- NibbleIter
\* a byte is a number in 0..255, a nibble a number in 0..15
\* faulty variant: the lowest bit is tested
Nibble_is_msb_on_low_bit(nibble) == nibble % 2 = 1

\* Nibble::is_msb_on: self.0 & 0b1000
Nibble_is_msb_on(nibble) == (nibble \div 8) % 2 = 1

\* NibbleIter::new over the bytes of the cursor: pos is the position of the
\* cursor; out, ret, panic and calls record the calls of next
NibbleIter_new(bytes) ==
  [bytes |-> bytes, pos |-> 0, has_more |-> TRUE, first_read |-> TRUE, last_byte |-> None,
   out |-> <<>>, ret |-> None, panic |-> FALSE, calls |-> 0]

\* the iterator after the return of a nibble
NibbleIter_yield(it, nibble) ==
  [it EXCEPT !.has_more = IF Nibble_is_msb_on(nibble) THEN @ ELSE FALSE,
             !.first_read = FALSE,
             !.out = Append(@, nibble),
             !.ret = Some(nibble)]

\* Iterator::next
NibbleIter_next(it) ==
  LET i == [it EXCEPT !.calls = @ + 1] IN
  IF ~i.has_more THEN [i EXCEPT !.ret = None]
  ELSE IF i.last_byte = None
    THEN IF i.pos >= Len(i.bytes)
           THEN IF i.first_read
                  THEN [i EXCEPT !.has_more = FALSE, !.ret = None]
                  ELSE [i EXCEPT !.panic = TRUE, !.ret = None]
           ELSE LET byte == i.bytes[i.pos + 1] IN
                NibbleIter_yield([i EXCEPT !.pos = @ + 1, !.last_byte = Some(byte)],
                                 byte \div 16)
    ELSE NibbleIter_yield([i EXCEPT !.last_byte = None], i.last_byte[1] % 16)

\* ---------------------------------------------------------------- BufferMut
\* the build: with or without overflow checks, usize of 32 or 64 bits
Builds == [overflow_checks : BOOLEAN, usize_bits : {32, 64}]

NoRead == [kind |-> "none", offset |-> 0, len |-> 0, bytes |-> <<>>]

\* BufferMut::new; written and ret record the calls of write and the last read
BufferMut_new(build) ==
  [bytes |-> <<>>, build |-> build, written |-> <<>>, ret |-> NoRead]

BufferMut_len(b) == Len(b.bytes)

\* BufferMut::write: extend_from_slice
BufferMut_write(b, slice) ==
  [b EXCEPT !.bytes = @ \o slice, !.written = Append(@, slice), !.ret = NoRead]

\* `start + (len - 1) as usize` for a u32 len: [overflow, huge, v].  len - 1
\* on len = 0 panics with overflow checks and is u32::MAX without; u32::MAX is
\* longer than every buffer here and is kept as huge.  start + u32::MAX is
\* start - 1 where usize has 32 bits and start > 0.
BufferMut_end(build, start, len) ==
  IF len > 0 THEN [overflow |-> FALSE, huge |-> FALSE, v |-> start + (len - 1)]
  ELSE IF build.overflow_checks THEN [overflow |-> TRUE, huge |-> FALSE, v |-> 0]
  ELSE IF build.usize_bits = 32 /\ start > 0
    THEN [overflow |-> FALSE, huge |-> FALSE, v |-> start - 1]
  ELSE [overflow |-> FALSE, huge |-> TRUE, v |-> 0]

\* BufferMut::read: the outcome and the bytes of &self.bytes[start..=end]
BufferMut_read(b, offset, len) ==
  LET end == BufferMut_end(b.build, offset, len)
      R(kind, bytes) == [kind |-> kind, offset |-> offset, len |-> len, bytes |-> bytes]
  IN IF end.overflow THEN R("attempt to subtract with overflow", <<>>)
     ELSE IF end.huge \/ ~(end.v < Len(b.bytes)) THEN R("out-of-bounds", <<>>)
     ELSE R("ok", SubSeq(b.bytes, offset + 1, end.v + 1))

VARIABLES kv, st, gh, log, lastOp, nops, io, iter, buf

vars == <<kv, st, gh, log, lastOp, nops, io, iter, buf>>

\* ---------------------------------------------------------------- KV store
MemKVStore_new == <<>>

KV_get(map, key) == IF key \in DOMAIN map THEN Some(map[key]) ELSE None

\* faulty variant: an entry whose key the map already holds is not stored
RECURSIVE KV_store_keep(_, _)
KV_store_keep(map, changes) ==
  IF changes = <<>> THEN map
  ELSE LET k == Head(changes)[1]
           v == Head(changes)[2]
           m == [x \in (DOMAIN map) \cup {k} |-> IF x \in DOMAIN map THEN map[x] ELSE v]
       IN KV_store_keep(m, Tail(changes))

\* faulty variant: the map is emptied before the batch is inserted
KV_store_replace(map, changes) ==
  [k \in {changes[j][1] : j \in DOMAIN changes} |->
     changes[CHOOSE j \in DOMAIN changes :
               changes[j][1] = k /\ \A l \in DOMAIN changes : changes[l][1] = k => l <= j][2]]

RECURSIVE KV_store(_, _)
KV_store(map, changes) ==
  IF changes = <<>> THEN map
  ELSE LET k == Head(changes)[1]
           v == Head(changes)[2]
           m == [x \in (DOMAIN map) \cup {k} |-> IF x = k THEN v ELSE map[x]]
       IN KV_store(m, Tail(changes))

\* byte length of the value stored under `key`: a digest vector holds 32 bytes
\* per page hash, a page entry holds the raw page bytes
ByteLen(map, key) == IF key[1] = "KH" THEN 32 * Len(map[key]) ELSE Len(map[key])

\* ---------------------------------------------------------------- storage
Idx(pc) == 0..(pc - 1)

\* faulty variant: the page bytes are left out of the page hash
compute_page_hash_no_data(addr, page_idx, page_data) == PH_hash(addr, page_idx, "")

compute_page_hash(addr, page_idx, page_data) == PH_hash(addr, page_idx, page_data)

\* faulty variant: the zero page is hashed as an empty page, not as 32 zero bytes
compute_zero_page_hash_empty(addr, page_idx) == compute_page_hash(addr, page_idx, "")

compute_zero_page_hash(addr, page_idx) == compute_page_hash(addr, page_idx, Zeros32)

\* faulty variant: a state the store does not hold is taken for a fresh contract
init_pages_state_lenient(map, addr, state, pages_count) ==
  IF state \in DOMAIN map
    THEN LET v == map[state] IN
         IF ByteLen(map, state) % 32 # 0 \/ Len(v) > pages_count
           THEN [ok |-> FALSE, pages |-> <<>>]
           ELSE [ok |-> TRUE,
                 pages |-> [i \in Idx(pages_count) |->
                              IF i < Len(v) THEN NotModified(v[i + 1]) ELSE Uninitialized]]
    ELSE [ok |-> TRUE,
          pages |-> [i \in Idx(pages_count) |-> NotModified(compute_zero_page_hash(addr, i))]]

\* faulty variant: the digests stored under the state are not used: every slot gets
\* its zero-page hash
init_pages_state_zero(map, addr, state, pages_count) ==
  IF state = State_empty \/ state \in DOMAIN map
    THEN [ok |-> TRUE,
          pages |-> [i \in Idx(pages_count) |-> NotModified(compute_zero_page_hash(addr, i))]]
    ELSE [ok |-> FALSE, pages |-> <<>>]

\* faulty variant: the stored page hashes are assigned to the slots back to front
init_pages_state_rev(map, addr, state, pages_count) ==
  IF state = State_empty
    THEN [ok |-> TRUE,
          pages |-> [i \in Idx(pages_count) |-> NotModified(compute_zero_page_hash(addr, i))]]
  ELSE IF state \in DOMAIN map
    THEN LET v == map[state] IN
         IF ByteLen(map, state) % 32 # 0 \/ Len(v) > pages_count
           THEN [ok |-> FALSE, pages |-> <<>>]
           ELSE [ok |-> TRUE,
                 pages |-> [i \in Idx(pages_count) |->
                              IF i < Len(v) THEN NotModified(v[Len(v) - i]) ELSE Uninitialized]]
  ELSE [ok |-> FALSE, pages |-> <<>>]

\* faulty variant: a state the store does not hold gives a storage whose slots
\* were never initialized, instead of a panic
init_pages_state_nopanic(map, addr, state, pages_count) ==
  IF state = State_empty
    THEN [ok |-> TRUE,
          pages |-> [i \in Idx(pages_count) |-> NotModified(compute_zero_page_hash(addr, i))]]
  ELSE IF state \in DOMAIN map
    THEN LET v == map[state] IN
         IF ByteLen(map, state) % 32 # 0 \/ Len(v) > pages_count
           THEN [ok |-> FALSE, pages |-> <<>>]
           ELSE [ok |-> TRUE,
                 pages |-> [i \in Idx(pages_count) |->
                              IF i < Len(v) THEN NotModified(v[i + 1]) ELSE Uninitialized]]
  ELSE [ok |-> TRUE, pages |-> [i \in Idx(pages_count) |-> Uninitialized]]

\* result of the constructor: [ok, pages]; ok = FALSE is a panic
init_pages_state(map, addr, state, pages_count) ==
  IF state = State_empty
    THEN [ok |-> TRUE,
          pages |-> [i \in Idx(pages_count) |-> NotModified(compute_zero_page_hash(addr, i))]]
  ELSE IF state \in DOMAIN map
    THEN LET v == map[state] IN
         IF ByteLen(map, state) % 32 # 0 \/ Len(v) > pages_count
           THEN [ok |-> FALSE, pages |-> <<>>]
           ELSE [ok |-> TRUE,
                 pages |-> [i \in Idx(pages_count) |->
                              IF i < Len(v) THEN NotModified(v[i + 1]) ELSE Uninitialized]]
  ELSE [ok |-> FALSE, pages |-> <<>>]

HasUninitialized(pages) == \E i \in DOMAIN pages : pages[i].tag = "Uninitialized"

modified_pages_count(pages) == Cardinality({i \in DOMAIN pages : pages[i].tag = "Modified"})

\* joined_pages_hash: the page hashes of all slots in page-index order
RECURSIVE JoinFrom(_, _, _)
JoinFrom(pages, i, n) ==
  IF i >= n THEN <<>> ELSE <<pages[i].ph>> \o JoinFrom(pages, i + 1, n)

\* faulty variant: every slot is put into the changeset, not only the Modified ones
RECURSIVE ChangesFrom_all(_, _, _)
ChangesFrom_all(pages, i, n) ==
  IF i >= n THEN <<>>
  ELSE <<(<<pages[i].ph, pages[i].data>>)>> \o ChangesFrom_all(pages, i + 1, n)

RECURSIVE ChangesFrom(_, _, _)
ChangesFrom(pages, i, n) ==
  IF i >= n THEN <<>>
  ELSE (IF pages[i].tag = "Modified" THEN <<(<<pages[i].ph, pages[i].data>>)>> ELSE <<>>)
       \o ChangesFrom(pages, i + 1, n)

\* faulty variant: the page hashes are joined in descending page-index order
RECURSIVE JoinDown(_, _)
JoinDown(pages, i) ==
  IF i < 0 THEN <<>> ELSE <<pages[i].ph>> \o JoinDown(pages, i - 1)

prepare_changeset_desc(pages, pages_count) ==
  LET joined_pages_hash == JoinDown(pages, pages_count - 1)
  IN [new_state |-> KH_hash(joined_pages_hash),
      joined_pages_hash |-> joined_pages_hash,
      changes |-> ChangesFrom(pages, 0, pages_count)]

\* faulty variant: the new state is the hash of the hashes of the Modified pages only
prepare_changeset_dirty_only(pages, pages_count) ==
  LET joined_pages_hash == JoinFrom(pages, 0, pages_count)
      changes == ChangesFrom(pages, 0, pages_count)
  IN [new_state |-> KH_hash([j \in DOMAIN changes |-> changes[j][1]]),
      joined_pages_hash |-> joined_pages_hash,
      changes |-> changes]

prepare_changeset(pages, pages_count) ==
  LET joined_pages_hash == JoinFrom(pages, 0, pages_count)
  IN [new_state |-> KH_hash(joined_pages_hash),
      joined_pages_hash |-> joined_pages_hash,
      changes |-> ChangesFrom(pages, 0, pages_count)]

get_page_hash(pages, page_idx) == pages[page_idx].ph

read_page(map, pages, page_idx) == KV_get(map, pages[page_idx].ph)

clear(pages) ==
  [i \in DOMAIN pages |->
     IF pages[i].tag = "Modified" THEN NotModified(pages[i].ph) ELSE pages[i]]

\* faulty variant: the slot gets the new bytes but keeps the hash it had
write_page_stale(addr, pages, page_idx, page_data) ==
  [pages EXCEPT ![page_idx] = Modified(pages[page_idx].ph, page_data)]

\* faulty variant: a slot that is already Dirty keeps the bytes written first
write_page_keep_first(addr, pages, page_idx, page_data) ==
  IF pages[page_idx].tag = "Modified"
    THEN pages
    ELSE [pages EXCEPT ![page_idx] =
            Modified(compute_page_hash(addr, page_idx, page_data), page_data)]

write_page(addr, pages, page_idx, page_data) ==
  [pages EXCEPT ![page_idx] = Modified(compute_page_hash(addr, page_idx, page_data), page_data)]

\* self.pages[page_idx]: an index outside the vector is a panic
InBounds(pages, page_idx) == page_idx \in DOMAIN pages

\* faulty variant: a Dirty page is read from the bytes written to it
PagesStorage_read_page_dirty(map, pages, page_idx) ==
  IF ~InBounds(pages, page_idx) THEN [ok |-> FALSE, read |-> None]
  ELSE IF pages[page_idx].tag = "NotModified"
    THEN [ok |-> TRUE, read |-> read_page(map, pages, page_idx)]
  ELSE IF pages[page_idx].tag = "Modified"
    THEN [ok |-> TRUE, read |-> Some(pages[page_idx].data)]
  ELSE [ok |-> FALSE, read |-> None]

\* the whole of read_page: [ok, read]; ok = FALSE is a panic
PagesStorage_read_page(map, pages, page_idx) ==
  IF ~InBounds(pages, page_idx) THEN [ok |-> FALSE, read |-> None]
  ELSE IF pages[page_idx].tag = "NotModified"
    THEN [ok |-> TRUE, read |-> read_page(map, pages, page_idx)]
  ELSE [ok |-> FALSE, read |-> None]

\* faulty variant: an index past the end wraps around to a slot of the vector
PagesStorage_write_page_wrap(addr, pages, page_idx, page_data) ==
  LET n == Cardinality(DOMAIN pages) IN
  [ok |-> TRUE, pages |-> write_page(addr, pages, page_idx % n, page_data)]

\* the whole of write_page: [ok, pages]; ok = FALSE is a panic
PagesStorage_write_page(addr, pages, page_idx, page_data) ==
  IF InBounds(pages, page_idx)
    THEN [ok |-> TRUE, pages |-> write_page(addr, pages, page_idx, page_data)]
    ELSE [ok |-> FALSE, pages |-> pages]

\* the whole of get_page_hash: [ok, hash]; ok = FALSE is a panic
PagesStateStorage_get_page_hash(pages, page_idx) ==
  IF InBounds(pages, page_idx) /\ pages[page_idx].tag # "Uninitialized"
    THEN [ok |-> TRUE, hash |-> Some(get_page_hash(pages, page_idx))]
    ELSE [ok |-> FALSE, hash |-> None]

\* faulty variant: the state is computed from the slots as they are now
get_state_live(storage) ==
  IF storage.alive /\ ~HasUninitialized(storage.pages)
    THEN prepare_changeset(storage.pages, storage.pages_count).new_state
    ELSE storage.state

get_state(storage) == storage.state

\* faulty variant: commit does not store a page whose hash the store already holds
commit_dedupe(map, pages, pages_count) ==
  LET cs == prepare_changeset(pages, pages_count)
      fresh == SelectSeq(cs.changes, LAMBDA e : e[1] \notin DOMAIN map)
      entries == <<(<<cs.new_state, cs.joined_pages_hash>>)>> \o fresh
  IN [entries |-> entries,
      kv |-> KV_store(map, entries),
      state |-> cs.new_state,
      pages |-> clear(pages)]

\* faulty variant: commit leaves the slots as they are, Dirty ones included
commit_keep_dirty(map, pages, pages_count) ==
  LET cs == prepare_changeset(pages, pages_count)
      entries == <<(<<cs.new_state, cs.joined_pages_hash>>)>> \o cs.changes
  IN [entries |-> entries,
      kv |-> KV_store(map, entries),
      state |-> cs.new_state,
      pages |-> pages]

\* faulty variant: the state entry is put behind the page entries
commit_state_last(map, pages, pages_count) ==
  LET cs == prepare_changeset(pages, pages_count)
      entries == cs.changes \o <<(<<cs.new_state, cs.joined_pages_hash>>)>>
  IN [entries |-> entries,
      kv |-> KV_store(map, entries),
      state |-> cs.new_state,
      pages |-> clear(pages)]

\* commit on a storage without Uninitialized slots: the entries handed to the
\* store (the state entry first), the store, the state and the slots afterwards
commit(map, pages, pages_count) ==
  LET cs == prepare_changeset(pages, pages_count)
      entries == <<(<<cs.new_state, cs.joined_pages_hash>>)>> \o cs.changes
  IN [entries |-> entries,
      kv |-> KV_store(map, entries),
      state |-> cs.new_state,
      pages |-> clear(pages)]

\* ---------------------------------------------------------------- history
\* History kept beside each storage (not program state):
\*   content  the logical bytes of every page: the last bytes written and not
\*            discarded by clear, 32 zero bytes for a page never written
\*   base     content at construction / at the last commit
\*   prior    the slot hashes at construction / at the last commit
\*   dirtied  write_page was called since construction / the last commit
\*   run      the write_page calls since construction, while nothing else was called
NoGhost ==
  [content |-> <<>>, base |-> <<>>, prior |-> <<>>, dirtied |-> FALSE,
   run |-> [ok |-> FALSE, from |-> State_empty, writes |-> <<>>]]

HashesOf(pages) == [i \in DOMAIN pages |-> pages[i].ph]

NoOp ==
  [op |-> "none", s |-> "s1", ok |-> TRUE, idx |-> 0, read |-> None, hash |-> None,
   state |-> State_empty, receipt |-> None, key |-> "", changes |-> <<>>,
   tx |-> None, spawn |-> None, slice |-> None]

Op(name, s, ok) == [NoOp EXCEPT !.op = name, !.s = s, !.ok = ok]

\* no storage yet over an empty store
InitStore ==
  /\ kv = MemKVStore_new
  /\ st = [s \in Storages |-> NoStorage]
  /\ gh = [s \in Storages |-> NoGhost]
  /\ log = {}
  /\ lastOp = NoOp
  /\ nops = 0
  /\ io = IoIdle

Init ==
  /\ InitStore
  /\ iter = NibbleIter_new(<<>>)
  /\ buf = BufferMut_new([overflow_checks |-> TRUE, usize_bits |-> 64])

\* the state roots a caller can name: the all-zero state, every committed
\* root, and a root the store has never seen
OpenStates == {State_empty, UnknownState} \cup {k \in DOMAIN kv : k[1] = "KH"}

\* MerklePageStorage::new(addr, kv, state, pages_count) into handle s
Open(s, addr, state, pages_count) ==
  /\ nops < MaxOps
  /\ nops' = nops + 1
  /\ UNCHANGED <<iter, buf>>
  /\ io' = io
  /\ kv' = kv
  /\ log' = log
  /\ LET r == init_pages_state(kv, addr, state, pages_count) IN
     IF r.ok
       THEN /\ st' = [st EXCEPT ![s] =
                        [alive |-> TRUE, state |-> state, addr |-> addr,
                         pages |-> r.pages, pages_count |-> pages_count]]
            /\ lastOp' = [Op("open", s, TRUE) EXCEPT !.state = state]
            /\ \E c \in (IF \E y \in log : y.root = state
                           THEN {[pc |-> x.pc, content |-> x.content] :
                                   x \in {y \in log : y.root = state}}
                           ELSE {[pc |-> 0, content |-> <<>>]}) :
                 LET cont == [i \in Idx(pages_count) |->
                                IF i < c.pc THEN c.content[i] ELSE Zeros32]
                 IN gh' = [gh EXCEPT ![s] =
                             [content |-> cont, base |-> cont,
                              prior |-> HashesOf(r.pages), dirtied |-> FALSE,
                              run |-> [ok |-> TRUE, from |-> state, writes |-> <<>>]]]
       ELSE /\ st' = [st EXCEPT ![s] = NoStorage]
            /\ gh' = [gh EXCEPT ![s] = NoGhost]
            /\ lastOp' = [Op("open", s, FALSE) EXCEPT !.state = state]

\* PagesStorage::write_page
WritePage(s, page_idx, page_data) ==
  /\ nops < MaxOps
  /\ st[s].alive
  /\ nops' = nops + 1
  /\ UNCHANGED <<iter, buf>>
  /\ io' = io
  /\ kv' = kv
  /\ log' = log
  /\ LET r == PagesStorage_write_page(st[s].addr, st[s].pages, page_idx, page_data) IN
     IF r.ok
       THEN /\ st' = [st EXCEPT ![s].pages = r.pages]
            /\ gh' = [gh EXCEPT ![s].content[page_idx] = page_data,
                                ![s].dirtied = TRUE,
                                ![s].run.writes = IF gh[s].run.ok
                                                    THEN Append(@, <<page_idx, page_data>>)
                                                    ELSE @]
            /\ lastOp' = [Op("write_page", s, TRUE) EXCEPT !.idx = page_idx]
       ELSE /\ st' = st
            /\ gh' = [gh EXCEPT ![s].run.ok = FALSE]
            /\ lastOp' = [Op("write_page", s, FALSE) EXCEPT !.idx = page_idx]

\* the slot at which a panicking clear stops: the first Uninitialized one
FirstUninitialized(pages) ==
  CHOOSE i \in DOMAIN pages :
    /\ pages[i].tag = "Uninitialized"
    /\ \A j \in DOMAIN pages : j < i => pages[j].tag # "Uninitialized"

\* the slots as a panicking clear leaves them
ClearUpTo(pages) ==
  [i \in DOMAIN pages |-> IF i < FirstUninitialized(pages) THEN clear(pages)[i] ELSE pages[i]]

\* PagesStorage::clear
Clear(s) ==
  /\ nops < MaxOps
  /\ st[s].alive
  /\ nops' = nops + 1
  /\ UNCHANGED <<iter, buf>>
  /\ io' = io
  /\ kv' = kv
  /\ log' = log
  /\ IF HasUninitialized(st[s].pages)
       THEN /\ st' = [st EXCEPT ![s].pages = ClearUpTo(st[s].pages)]
            /\ gh' = [gh EXCEPT ![s].content =
                                  [i \in DOMAIN st[s].pages |->
                                     IF i < FirstUninitialized(st[s].pages)
                                       THEN gh[s].base[i] ELSE gh[s].content[i]],
                                ![s].run.ok = FALSE]
            /\ lastOp' = Op("clear", s, FALSE)
       ELSE /\ st' = [st EXCEPT ![s].pages = clear(st[s].pages)]
            /\ gh' = [gh EXCEPT ![s].content = gh[s].base, ![s].run.ok = FALSE]
            /\ lastOp' = Op("clear", s, TRUE)

\* what the log keeps of a commit: who committed what, and what read_page
\* returned on the committing storage right after it
CommitRecord(s, c) ==
  [at |-> nops, root |-> c.state, addr |-> st[s].addr, pc |-> st[s].pages_count,
   from |-> st[s].state,
   content |-> gh[s].content,
   hashes |-> HashesOf(st[s].pages),
   reads |-> [i \in DOMAIN c.pages |-> read_page(c.kv, c.pages, i)],
   run |-> IF gh[s].run.ok
             THEN Some([from |-> gh[s].run.from, writes |-> gh[s].run.writes])
             ELSE None,
   batch |-> c.entries]

\* PagesStorage::commit
Commit(s) ==
  /\ nops < MaxOps
  /\ st[s].alive
  /\ nops' = nops + 1
  /\ UNCHANGED <<iter, buf>>
  /\ io' = io
  /\ IF HasUninitialized(st[s].pages)
       THEN /\ UNCHANGED <<kv, st, gh, log>>
            /\ lastOp' = Op("commit", s, FALSE)
       ELSE LET c == commit(kv, st[s].pages, st[s].pages_count)
            IN /\ kv' = c.kv
               /\ st' = [st EXCEPT ![s].state = c.state, ![s].pages = c.pages]
               /\ gh' = [gh EXCEPT ![s].base = gh[s].content,
                                   ![s].prior = HashesOf(c.pages),
                                   ![s].dirtied = FALSE,
                                   ![s].run.ok = FALSE]
               /\ log' = log \cup {CommitRecord(s, c)}
               /\ lastOp' = Op("commit", s, TRUE)

\* PagesStorage::read_page
ReadPage(s, page_idx) ==
  /\ st[s].alive
  /\ nops < MaxOps
  /\ nops' = nops + 1
  /\ UNCHANGED <<iter, buf>>
  /\ io' = io
  /\ UNCHANGED <<kv, st, gh, log>>
  /\ LET r == PagesStorage_read_page(kv, st[s].pages, page_idx) IN
     lastOp' = [Op("read_page", s, r.ok) EXCEPT !.idx = page_idx, !.read = r.read]

\* PagesStateStorage::get_page_hash
GetPageHash(s, page_idx) ==
  /\ st[s].alive
  /\ nops < MaxOps
  /\ nops' = nops + 1
  /\ UNCHANGED <<iter, buf>>
  /\ io' = io
  /\ UNCHANGED <<kv, st, gh, log>>
  /\ LET r == PagesStateStorage_get_page_hash(st[s].pages, page_idx) IN
     lastOp' = [Op("get_page_hash", s, r.ok) EXCEPT !.idx = page_idx, !.hash = r.hash]

\* the operations of the storages S of the contracts A over the one store
Step(S, A) ==
  \/ \E s \in S, addr \in A, state \in OpenStates, pc \in PagesCounts :
       Open(s, addr, state, pc)
  \/ \E s \in S, i \in Idx(MaxPages), d \in PageData : WritePage(s, i, d)
  \/ \E s \in S : Clear(s)
  \/ \E s \in S : Commit(s)
  \/ \E s \in S, i \in Idx(MaxPages) : ReadPage(s, i)
  \/ \E s \in S, i \in Idx(MaxPages) : GetPageHash(s, i)

\* one storage at a time, opened again in place for the next run, as the
\* tests do (mem_merkle_pages_open! shadows `storage`)
Next == Step({"s1"}, Addrs)

Spec == Init /\ [][Next]_vars

\* two storages of one contract over the one store (kv: Rc<RefCell<KV>>),
\* their calls interleaved
NextShared ==
  \/ \E s \in Storages, addr \in Addrs, state \in OpenStates, pc \in PagesCounts :
       Open(s, addr, state, pc)
  \/ \E s \in Storages, i \in Idx(MaxPages), d \in PageData : WritePage(s, i, d)
  \/ \E s \in Storages : Clear(s)
  \/ \E s \in Storages : Commit(s)

SpecShared == Init /\ [][NextShared]_vars

\* the contract each storage belongs to
AddressOf(s) == IF s = "s1" THEN 17 ELSE 18

\* a storage of MaxPages pages constructed at the all-zero state for each of
\* the two contracts, over the one empty store
InitContracts ==
  /\ kv = MemKVStore_new
  /\ st = [s \in Storages |->
             [alive |-> TRUE, state |-> State_empty, addr |-> AddressOf(s),
              pages |-> init_pages_state(MemKVStore_new, AddressOf(s), State_empty,
                                         MaxPages).pages,
              pages_count |-> MaxPages]]
  /\ gh = [s \in Storages |->
             [content |-> [i \in Idx(MaxPages) |-> Zeros32],
              base |-> [i \in Idx(MaxPages) |-> Zeros32],
              prior |-> HashesOf(st[s].pages), dirtied |-> FALSE,
              run |-> [ok |-> TRUE, from |-> State_empty, writes |-> <<>>]]]
  /\ log = {}
  /\ lastOp = NoOp
  /\ nops = 0
  /\ io = IoIdle
  /\ iter = NibbleIter_new(<<>>)
  /\ buf = BufferMut_new([overflow_checks |-> TRUE, usize_bits |-> 64])

\* the write_page and commit calls of the two storages, interleaved
NextContracts ==
  /\ nops < MaxContractOps
  /\ \/ \E s \in Storages, i \in Idx(MaxPages), d \in {"abc", "def"} : WritePage(s, i, d)
     \/ \E s \in Storages : Commit(s)

SpecContracts == InitContracts /\ [][NextContracts]_vars

\* ---------------------------------------------------------------- runtime
\* the kinds of value a wasm function can return
WasmerValues == {"I32", "I64", "F32", "F64", "V128"}

\* Value::try_from(&WasmerValue): only the integers are supported
Value_try_from(value) ==
  IF value \in {"I32", "I64"}
    THEN [ok |-> TRUE, value |-> value]
    ELSE [ok |-> FALSE, value |-> "NotSupportedType"]

cast_wasmer_func_returns(returns) ==
  IF \E i \in DOMAIN returns : ~Value_try_from(returns[i]).ok
    THEN [ok |-> FALSE, values |-> <<>>]
    ELSE [ok |-> TRUE, values |-> [i \in DOMAIN returns |-> Value_try_from(returns[i]).value]]

\* result is [ok, state]: Err(e) or Ok((state, returns))
make_receipt(result) ==
  IF result.ok
    THEN [success |-> TRUE, new_state |-> Some(result.state)]
    ELSE [success |-> FALSE, new_state |-> None]

\* what func.call(&args) can come back with: an error, or the returned values
FuncResults ==
  {[ok |-> FALSE, returns |-> <<>>]}
    \cup {[ok |-> TRUE, returns |-> r] : r \in {<<>>} \cup {<<v>> : v \in WasmerValues}}

\* how far a transaction gets before its function is called: the app is not
\* found (load_template), the template does not compile, the module does not
\* instantiate, the function is not exported, or the function is called
TxStarts == {"AppNotFound", "CompilationFailed", "InstantiationFailed", "FuncNotFound", "call"}

\* faulty variant: the storage is committed before the function is looked up
do_exec_app_commit_first(map, pages, pages_count, is_ctor, start, call) ==
  IF HasUninitialized(pages)
    THEN [panic |-> TRUE, ok |-> FALSE, state |-> State_empty, commits |-> <<>>]
    ELSE LET c == commit(map, pages, pages_count) IN
         [panic |-> FALSE,
          ok |-> start = "call" /\ call.ok /\ cast_wasmer_func_returns(call.returns).ok,
          state |-> c.state, commits |-> <<c>>]

\* do_exec_app over the slots of the storage of the instance (the page writes
\* of the function are the write_page steps before): [panic, ok, state,
\* commits], ok and state being Ok((state, returns)) or Err(e), commits the
\* calls of storage.commit() in order
do_exec_app(map, pages, pages_count, is_ctor, start, call) ==
  LET Err == [panic |-> FALSE, ok |-> FALSE, state |-> State_empty, commits |-> <<>>] IN
  IF start \in {"CompilationFailed", "InstantiationFailed"} THEN Err
  ELSE IF start = "FuncNotFound"
    THEN IF is_ctor
           THEN [panic |-> FALSE, ok |-> TRUE, state |-> State_empty, commits |-> <<>>]
           ELSE Err
  ELSE IF ~call.ok THEN Err
  ELSE IF HasUninitialized(pages)
    THEN [panic |-> TRUE, ok |-> FALSE, state |-> State_empty, commits |-> <<>>]
  ELSE LET c == commit(map, pages, pages_count)
           returns == cast_wasmer_func_returns(call.returns)
       IN [panic |-> FALSE, ok |-> returns.ok, state |-> c.state, commits |-> <<c>>]

\* inner_exec_app: Err(AppNotFound) when the template is not loaded, else
\* Ok(receipt) whatever do_exec_app returned; [panic, ok, receipt, commits]
inner_exec_app(map, pages, pages_count, is_ctor, start, call) ==
  IF start = "AppNotFound"
    THEN [panic |-> FALSE, ok |-> FALSE, receipt |-> None, commits |-> <<>>]
    ELSE LET result == do_exec_app(map, pages, pages_count, is_ctor, start, call) IN
         [panic |-> result.panic, ok |-> ~result.panic,
          receipt |-> IF result.panic THEN None ELSE Some(make_receipt(result)),
          commits |-> result.commits]

\* faulty variant: a receipt without a new state is reported as an error
call_ctor_checked(inner) ==
  IF inner.ok /\ inner.receipt[1].new_state # None
    THEN [panic |-> FALSE, ok |-> TRUE, state |-> inner.receipt[1].new_state]
    ELSE [panic |-> inner.panic, ok |-> FALSE, state |-> None]

\* call_ctor on what inner_exec_app returned: Ok(receipt) is unwrapped for its
\* new state, Err(..) is todo!(); [panic, ok, state]
call_ctor(inner) ==
  IF inner.ok
    THEN IF inner.receipt[1].new_state # None
           THEN [panic |-> FALSE, ok |-> TRUE, state |-> inner.receipt[1].new_state]
           ELSE [panic |-> TRUE, ok |-> FALSE, state |-> None]
    ELSE [panic |-> TRUE, ok |-> FALSE, state |-> None]

\* one transaction on the storage of the instance: exec_app (is_ctor = FALSE)
\* or the constructor call of spawn_app (is_ctor = TRUE, the storage opened at
\* State::empty()).  A transaction whose function is not called has made no
\* page write.  The instance and its storage are gone afterwards.
ExecApp(s, is_ctor, start, call) ==
  /\ nops < MaxOps
  /\ st[s].alive
  /\ is_ctor => st[s].state = State_empty
  /\ start # "call" => (~gh[s].dirtied /\ modified_pages_count(st[s].pages) = 0)
  /\ nops' = nops + 1
  /\ UNCHANGED <<iter, buf>>
  /\ io' = io
  /\ st' = [st EXCEPT ![s] = NoStorage]
  /\ gh' = [gh EXCEPT ![s] = NoGhost]
  /\ LET r == inner_exec_app(kv, st[s].pages, st[s].pages_count, is_ctor, start, call) IN
     /\ kv' = IF r.commits = <<>> THEN kv ELSE r.commits[Len(r.commits)].kv
     /\ log' = log \cup {CommitRecord(s, r.commits[j]) : j \in DOMAIN r.commits}
     /\ lastOp' = [Op("exec_app", s, ~r.panic) EXCEPT
                      !.receipt = r.receipt,
                      !.tx = Some([is_ctor |-> is_ctor, start |-> start, call_ok |-> call.ok,
                                   commits |-> Len(r.commits)]),
                      !.spawn = IF is_ctor /\ ~r.panic THEN Some(call_ctor(r)) ELSE None]

\* the storage operations and the transactions of the runtime
NextTx ==
  /\ nops < MaxTxOps
  /\ \/ Next
     \/ \E s \in {"s1"}, is_ctor \in BOOLEAN, start \in TxStarts, call \in FuncResults :
          ExecApp(s, is_ctor, start, call)

SpecTx == Init /\ [][NextTx]_vars

\* ---------------------------------------------------------------- page slices
u16_max_value == 65535

\* the size of a page in bytes
page_size == 4096

\* the page indexes, offsets and lengths of the slice requests
SlicePages == {0, u16_max_value, u16_max_value + 1}
SliceOffsets == {0, page_size - 1}
SliceLens == {0, 1, page_size, page_size + 1}

\* faulty variant: the length is not asserted to be positive
page_slice_layout_any_len(page_idx, page_offset, len) ==
  [ok |-> page_idx <= u16_max_value,
   page_idx |-> page_idx % (u16_max_value + 1), page_offset |-> page_offset, len |-> len]

\* page_slice_layout: [ok, page_idx, page_offset, len]; ok = FALSE is a failed
\* assert!; `page_idx as u16` keeps the low 16 bits
page_slice_layout(page_idx, page_offset, len) ==
  [ok |-> page_idx <= u16_max_value /\ len > 0,
   page_idx |-> page_idx % (u16_max_value + 1), page_offset |-> page_offset, len |-> len]

\* the constraint of the slice layer on a layout: the slice lies within one page
layout_within_page(layout) == layout.page_offset + layout.len <= page_size

\* storage_read_page_slice / storage_write_page_slice up to the call of the
\* page storage: [ok, page_idx, calls]; calls is the number of calls of the
\* page storage the request leads to
storage_page_slice(page, offset, len) ==
  LET layout == page_slice_layout(page, offset, len) IN
  IF ~layout.ok THEN [ok |-> FALSE, page_idx |-> layout.page_idx, calls |-> 0]
  ELSE IF ~layout_within_page(layout)
    THEN [ok |-> FALSE, page_idx |-> layout.page_idx, calls |-> 0]
  ELSE [ok |-> TRUE, page_idx |-> layout.page_idx, calls |-> 1]

SliceOp(name, s, ok, page, offset, len, calls) ==
  [Op(name, s, ok) EXCEPT
     !.slice = Some([page |-> page, offset |-> offset, len |-> len, calls |-> calls])]

\* storage_read_page_slice: the layout, then the read of the page
ReadPageSlice(s, page, offset, len) ==
  /\ st[s].alive
  /\ nops < MaxOps
  /\ nops' = nops + 1
  /\ UNCHANGED <<iter, buf>>
  /\ io' = io
  /\ UNCHANGED <<kv, st, gh, log>>
  /\ LET q == storage_page_slice(page, offset, len) IN
     IF ~q.ok
       THEN lastOp' = SliceOp("read_page_slice", s, FALSE, page, offset, len, q.calls)
       ELSE LET r == PagesStorage_read_page(kv, st[s].pages, q.page_idx) IN
            lastOp' = [SliceOp("read_page_slice", s, r.ok, page, offset, len, q.calls)
                         EXCEPT !.idx = q.page_idx, !.read = r.read]

\* storage_write_page_slice: the layout, then the page with the slice
\* overwritten (page_data) is written to the page storage
WritePageSlice(s, page, offset, len, page_data) ==
  /\ st[s].alive
  /\ nops < MaxOps
  /\ nops' = nops + 1
  /\ UNCHANGED <<iter, buf>>
  /\ io' = io
  /\ kv' = kv
  /\ log' = log
  /\ LET q == storage_page_slice(page, offset, len) IN
     IF ~q.ok
       THEN /\ UNCHANGED <<st, gh>>
            /\ lastOp' = SliceOp("write_page_slice", s, FALSE, page, offset, len, q.calls)
       ELSE LET r == PagesStorage_write_page(st[s].addr, st[s].pages, q.page_idx, page_data) IN
            /\ st' = [st EXCEPT ![s].pages = r.pages]
            /\ gh' = IF r.ok
                       THEN [gh EXCEPT ![s].content[q.page_idx] = page_data,
                                       ![s].dirtied = TRUE, ![s].run.ok = FALSE]
                       ELSE [gh EXCEPT ![s].run.ok = FALSE]
            /\ lastOp' = [SliceOp("write_page_slice", s, r.ok, page, offset, len, q.calls)
                            EXCEPT !.idx = q.page_idx]

\* the operations of the app storage: slices, commit and get_page_hash, on a
\* storage the builder has opened
NextSlice ==
  /\ nops < MaxSliceOps
  /\ \/ \E addr \in Addrs, state \in OpenStates, pc \in PagesCounts : Open("s1", addr, state, pc)
     \/ \E page \in SlicePages, offset \in SliceOffsets, len \in SliceLens :
          ReadPageSlice("s1", page, offset, len)
     \/ \E page \in SlicePages, offset \in SliceOffsets, len \in SliceLens, d \in PageData :
          WritePageSlice("s1", page, offset, len, d)
     \/ Commit("s1")
     \/ \E i \in Idx(MaxPages) : GetPageHash("s1", i)

SpecSlice == Init /\ [][NextSlice]_vars

\* ---------------------------------------------------------------- small types
\* the byte sequences of at most n bytes drawn from S
RECURSIVE SeqsUpTo(_, _)
SeqsUpTo(S, n) ==
  IF n = 0 THEN {<<>>}
  ELSE SeqsUpTo(S, n - 1) \cup {Append(q, x) : q \in SeqsUpTo(S, n - 1), x \in S}

\* the bytes of the tests (0b1001_1111, 0b0011_0000) and bytes with both
\* nibbles on, a low nibble on, and a high nibble off
NibbleBytes == {159, 48, 255, 137, 7}

InitNibble ==
  /\ InitStore
  /\ iter \in {NibbleIter_new(bytes) : bytes \in SeqsUpTo(NibbleBytes, MaxBytes)}
  /\ buf = BufferMut_new([overflow_checks |-> TRUE, usize_bits |-> 64])

\* a call of next; a panic ends the use of the iterator
NibbleNext ==
  /\ ~iter.panic
  /\ iter.calls < 2 * Len(iter.bytes) + 2
  /\ iter' = NibbleIter_next(iter)
  /\ UNCHANGED <<kv, st, gh, log, lastOp, nops, io, buf>>

SpecNibble == InitNibble /\ [][NibbleNext]_vars

BufBytes == {10, 20}

InitBuffer ==
  /\ InitStore
  /\ iter = NibbleIter_new(<<>>)
  /\ buf \in {BufferMut_new(build) : build \in Builds}

BufferWrite(slice) ==
  /\ Len(buf.written) < MaxWrites
  /\ Len(buf.bytes) + Len(slice) <= MaxBufLen
  /\ buf' = BufferMut_write(buf, slice)
  /\ UNCHANGED <<kv, st, gh, log, lastOp, nops, io, iter>>

BufferRead(offset, len) ==
  /\ buf' = [buf EXCEPT !.ret = BufferMut_read(buf, offset, len)]
  /\ UNCHANGED <<kv, st, gh, log, lastOp, nops, io, iter>>

NextBuffer ==
  \/ \E slice \in SeqsUpTo(BufBytes, MaxBufLen - 1) : BufferWrite(slice)
  \/ \E offset \in 0..(MaxBufLen + 1), len \in 0..(MaxBufLen + 1) : BufferRead(offset, len)

SpecBuffer == InitBuffer /\ [][NextBuffer]_vars

\* ---------------------------------------------------------------- a failing store
\* faulty variant: the state and the slots are assigned before the store is called
commit_store_panics_eager(state, pages, pages_count) ==
  [state |-> prepare_changeset(pages, pages_count).new_state, pages |-> clear(pages)]

\* the state and the slots after a commit whose call of store panics
\* (Rocksdb::store: "failed `put`-ing bach data", "failed `write`-ing bach"):
\* the panic leaves commit before self.state and the slots are assigned
commit_store_panics(state, pages, pages_count) ==
  [state |-> state, pages |-> pages]

\* PagesStorage::commit over a store that fails; nothing of the batch is written
CommitStoreFails(s) ==
  /\ nops < MaxOps
  /\ st[s].alive
  /\ ~HasUninitialized(st[s].pages)
  /\ nops' = nops + 1
  /\ UNCHANGED <<iter, buf>>
  /\ io' = io
  /\ kv' = kv
  /\ log' = log
  /\ LET c == commit_store_panics(st[s].state, st[s].pages, st[s].pages_count)
     IN st' = [st EXCEPT ![s].state = c.state, ![s].pages = c.pages]
  /\ gh' = [gh EXCEPT ![s].run.ok = FALSE]
  /\ lastOp' = Op("commit_store_failed", s, FALSE)

NextIO ==
  \/ Next
  \/ \E s \in {"s1"} : CommitStoreFails(s)

SpecIO == Init /\ [][NextIO]_vars

\* ---------------------------------------------------------------- store, entry by entry
\* faulty variant: the store can be read while store is inserting
kv_borrow_unchecked(cell) == TRUE

\* self.kv.borrow(): the RefCell can be read unless store holds it mutably; the
\* Rc keeps storage and readers on one thread, which is inside store until it returns
kv_borrow(cell) == ~cell.borrowed

\* commit up to the call of store: the batch is built and the store borrowed
CommitBegin(s) ==
  /\ kv_borrow(io)
  /\ nops < MaxOps
  /\ st[s].alive
  /\ nops' = nops + 1
  /\ UNCHANGED <<iter, buf>>
  /\ UNCHANGED <<kv, st, gh, log>>
  /\ IF HasUninitialized(st[s].pages)
       THEN /\ io' = io
            /\ lastOp' = Op("commit", s, FALSE)
       ELSE LET c == commit(kv, st[s].pages, st[s].pages_count)
            IN /\ io' = [borrowed |-> TRUE, s |-> s, entries |-> c.entries, next |-> 1,
                         new_state |-> c.state]
               /\ lastOp' = Op("store", s, TRUE)

\* one turn of the loop of MemKVStore::store
StoreInsert ==
  /\ io.borrowed
  /\ io.next <= Len(io.entries)
  /\ kv' = KV_store(kv, <<io.entries[io.next]>>)
  /\ io' = [io EXCEPT !.next = @ + 1]
  /\ lastOp' = [Op("insert", io.s, TRUE) EXCEPT !.idx = io.next]
  /\ UNCHANGED <<st, gh, log, nops, iter, buf>>

\* store returns: commit assigns the state and clears the slots
CommitEnd ==
  /\ io.borrowed
  /\ io.next > Len(io.entries)
  /\ LET s == io.s
         c == [entries |-> io.entries, kv |-> kv, state |-> io.new_state,
               pages |-> clear(st[s].pages)]
     IN /\ st' = [st EXCEPT ![s].state = c.state, ![s].pages = c.pages]
        /\ gh' = [gh EXCEPT ![s].base = gh[s].content,
                            ![s].prior = HashesOf(c.pages),
                            ![s].dirtied = FALSE,
                            ![s].run.ok = FALSE]
        /\ log' = log \cup {CommitRecord(s, c)}
        /\ lastOp' = Op("commit", s, TRUE)
  /\ io' = IoIdle
  /\ UNCHANGED <<kv, nops, iter, buf>>

\* another holder of the store looks up a state root
Observe(state) ==
  /\ kv_borrow(io)
  /\ nops < MaxOps
  /\ nops' = nops + 1
  /\ UNCHANGED <<iter, buf>>
  /\ lastOp' = [Op("observe", "s2", TRUE) EXCEPT !.state = state, !.read = KV_get(kv, state)]
  /\ UNCHANGED <<kv, st, gh, log, io>>

NextVis ==
  \/ \E s \in {"s1"}, addr \in Addrs, state \in OpenStates, pc \in PagesCounts :
       ~io.borrowed /\ Open(s, addr, state, pc)
  \/ \E s \in {"s1"}, i \in Idx(MaxPages), d \in PageData : ~io.borrowed /\ WritePage(s, i, d)
  \/ \E s \in {"s1"} : ~io.borrowed /\ Clear(s)
  \/ \E s \in {"s1"} : CommitBegin(s)
  \/ StoreInsert
  \/ CommitEnd
  \/ \E state \in {k \in DOMAIN kv : k[1] = "KH"} \cup {io.new_state} : Observe(state)

SpecVis == Init /\ [][NextVis]_vars

\* ---------------------------------------------------------------- the store alone
\* keys and values of a store used on its own, as in tests::rocksdb_sanity:
\* "abc" is the key [10, 20, 30], "def" the value [40, 50, 60]
RawKeys == {"abc", "xyz"}
RawValues == {"def", "uvw"}

RECURSIVE Batches(_)
Batches(n) ==
  IF n = 0 THEN {<<>>}
  ELSE Batches(n - 1) \cup
       {Append(b, <<k, v>>) : b \in {x \in Batches(n - 1) : Len(x) = n - 1},
                              k \in RawKeys, v \in RawValues}

\* KVStore::store
KVStoreOp(changes) ==
  /\ nops < MaxOps
  /\ nops' = nops + 1
  /\ UNCHANGED <<iter, buf>>
  /\ io' = io
  /\ kv' = KV_store(kv, changes)
  /\ lastOp' = [Op("store", "s1", TRUE) EXCEPT !.changes = changes]
  /\ UNCHANGED <<st, gh, log>>

\* KVStore::get
KVGetOp(key) ==
  /\ nops < MaxOps
  /\ nops' = nops + 1
  /\ UNCHANGED <<iter, buf>>
  /\ io' = io
  /\ kv' = kv
  /\ lastOp' = [Op("get", "s1", TRUE) EXCEPT !.key = key, !.read = KV_get(kv, key)]
  /\ UNCHANGED <<st, gh, log>>

NextKV ==
  \/ \E changes \in Batches(MaxBatch) : KVStoreOp(changes)
  \/ \E key \in RawKeys : KVGetOp(key)

SpecKV == Init /\ [][NextKV]_vars

\* ================================================================ claims
\* the storage handle the last operation acted on
Last == lastOp.s

Committed(op) == op.op = "commit" /\ op.ok

Dirty(s) == {i \in DOMAIN st[s].pages : st[s].pages[i].tag = "Modified"}

\* the digest vector the claims expect of storage s: for a written (Dirty)
\* page the hash of the bytes last written to it, else the hash of the slot
ExpectedDigests(s) ==
  [j \in 1..st[s].pages_count |->
     IF (j - 1) \in Dirty(s)
       THEN PH_hash(st[s].addr, j - 1, gh[s].content[j - 1])
       ELSE st[s].pages[j - 1].ph]

\* C1: after a commit on a storage with N pages, get_state() is the state hash
\* of the N page hashes the slots held at the time of the commit (the hash of
\* the written bytes for a Dirty page, the Clean hash otherwise), joined in
\* ascending page-index order.
C1_StateIsHashOfDigests ==
  [][Committed(lastOp') => st'[Last'].state = KH_hash(ExpectedDigests(Last'))]_vars

\* a commit of a two-page storage with one Dirty and one Clean page has happened
C1_Witness ==
  /\ Committed(lastOp)
  /\ \E c \in log : /\ c.at = nops - 1
                    /\ c.pc = 2
                    /\ Len(c.batch) = 2
                    /\ st[Last].state = c.root

\* C2: a commit leaves in the store the keys it had before, the new state
\* root and the page hash of every slot that was Dirty, and nothing else; the
\* new root maps to the digest vector and every Dirty page hash to the bytes
\* last written to the page.  Without Dirty pages the one entry
\* new_state -> digests is still written.
C2_CommitWritesExactly ==
  [][Committed(lastOp') =>
       LET s == Last'
           digests == ExpectedDigests(s)
           new_state == st'[s].state
       IN /\ DOMAIN kv' = DOMAIN kv \cup {new_state}
                            \cup {PH_hash(st[s].addr, i, gh[s].content[i]) : i \in Dirty(s)}
          /\ kv'[new_state] = digests
          /\ \A i \in Dirty(s) :
               kv'[PH_hash(st[s].addr, i, gh[s].content[i])] = gh[s].content[i]]_vars

\* a commit with two Dirty pages has happened on a store that already held entries
C2_Witness ==
  /\ Committed(lastOp)
  /\ \E c \in log : c.at = nops - 1 /\ Len(c.batch) = 3
  /\ \E c \in log : c.at < nops - 1

\* a fresh storage opened at the root of the logged commit c, with the
\* address and the page count of the storage that committed it
Reopen(c) == init_pages_state(kv, c.addr, c.root, c.pc)

\* the bytes a read_page result stands for: None is the implicit zero page
Canon(r) == IF r = None THEN Zeros32 ELSE r[1]

\* C3: round trip: for every state root S produced by a commit, after any
\* sequence of write_page, clear and commit, a fresh storage opened at S reads
\* for every page the last bytes written to it before the commit (writes
\* discarded by clear not counted), and the zero page if it was never written.
C3_RoundTrip ==
  \A c \in log :
    /\ Reopen(c).ok
    /\ \A i \in Idx(c.pc) : Canon(read_page(kv, Reopen(c).pages, i)) = c.content[i]

\* C4: for every committed state root S and every page digest P of the digest
\* vector stored under S, P is the zero-page digest of its (address, index) or
\* the store has an entry P -> bytes.
C4_DigestsHaveBytes ==
  \A c \in log :
    /\ c.root \in DOMAIN kv
    /\ \A j \in 1..Len(kv[c.root]) :
         \/ kv[c.root][j] = compute_zero_page_hash(c.addr, j - 1)
         \/ kv[c.root][j] \in DOMAIN kv

\* C5: clear reverts: after write_page calls followed by clear, without a commit
\* in between, get_page_hash(i) is the hash page i had before the writes, and
\* a commit then yields the state root of a commit without those writes.
C5_ClearReverts ==
  (lastOp.op = "clear" /\ lastOp.ok) =>
     /\ \A i \in Idx(st[Last].pages_count) :
          get_page_hash(st[Last].pages, i) = gh[Last].prior[i]
     /\ prepare_changeset(st[Last].pages, st[Last].pages_count).new_state
          = KH_hash([j \in 1..st[Last].pages_count |-> gh[Last].prior[j - 1]])

\* C6: rollback isolation: whatever is written and committed after the commit
\* that produced S1, a storage opened at S1 has, for every page, the
\* get_page_hash and the read_page result (None read as the zero page) that the
\* committing storage had right after that commit.
C6_RollbackIsolation ==
  \A c \in log :
    /\ Reopen(c).ok
    /\ \A i \in Idx(c.pc) :
         /\ get_page_hash(Reopen(c).pages, i) = c.hashes[i]
         /\ Canon(read_page(kv, Reopen(c).pages, i)) = Canon(c.reads[i])

C8_StateInStore ==
  \A s \in Storages :
    (st[s].alive /\ st[s].state # State_empty) =>
       /\ st[s].state \in DOMAIN kv
       /\ ByteLen(kv, st[s].state) % 32 = 0
       /\ \A c \in log : c.root = st[s].state => ByteLen(kv, st[s].state) = 32 * c.pc

\* a storage was opened at a root that an earlier two-page commit produced
C8_Witness ==
  /\ lastOp.op = "open" /\ lastOp.ok
  /\ st[Last].state # State_empty
  /\ \E c \in log : c.root = st[Last].state /\ c.pc = 2 /\ Len(c.batch) = 2

\* C9: determinism: two runs that open a storage with the same address, page
\* count and state, apply the same sequence of write_page calls and commit,
\* produce the same state root and the same batch (same entries, same order).
C9_Determinism ==
  \A c, d \in log :
    (c.run # None /\ c.run = d.run /\ c.addr = d.addr /\ c.pc = d.pc) =>
       (c.root = d.root /\ c.batch = d.batch)

\* two runs with the same write_page call have both committed at different times
C9_Witness ==
  \E c, d \in log :
    /\ c.at # d.at
    /\ c.run # None /\ c.run = d.run /\ c.addr = d.addr /\ c.pc = d.pc
    /\ Len(c.run[1].writes) = 1

\* C10: two commits with the same final logical page contents produce the
\* same state root, whatever the order of the writes, the overwrites in
\* between, and whether a zero page was left unwritten or written with zeros.
C10_SameContentSameRoot ==
  \A c, d \in log :
    (c.addr = d.addr /\ c.pc = d.pc /\ c.content = d.content) => c.root = d.root

\* C11: state injectivity: two commits with the same address and page count
\* whose logical page contents (a never-written page counted as the zero page)
\* differ in at least one page produce different state roots.
C11_StateInjectivity ==
  \A c, d \in log :
    (c.addr = d.addr /\ c.pc = d.pc /\ c.content # d.content) => c.root # d.root

\* C12: read_page(i) on a Dirty slot panics and returns no bytes, and a Dirty
\* slot of a storage stops being Dirty only by clear or commit (an open puts a
\* new storage in the handle).
C12_DirtyNotReadable ==
  [][LET s == Last' IN
     /\ (lastOp'.op = "read_page" /\ lastOp'.idx \in Dirty(s)) =>
          (~lastOp'.ok /\ lastOp'.read = None)
     /\ \A i \in Dirty(s) :
          (st'[s].alive /\ i \in DOMAIN st'[s].pages /\ st'[s].pages[i].tag # "Modified")
             => lastOp'.op \in {"clear", "commit", "open"}
     /\ (lastOp'.op = "read_page" /\ lastOp'.idx \in DOMAIN st[s].pages
           /\ st[s].pages[lastOp'.idx].tag = "NotModified") => lastOp'.ok]_vars

\* read_page has just panicked on a slot written since the last commit
C12_Witness ==
  /\ lastOp.op = "read_page" /\ ~lastOp.ok
  /\ lastOp.idx \in Dirty(Last)
  /\ log # {}

\* the slots, the state and the Dirty pages of a storage just opened at the
\* all-zero state, whatever the store holds
OpenedAtZero(storage) ==
  /\ storage.alive
  /\ DOMAIN storage.pages = Idx(storage.pages_count)
  /\ \A i \in Idx(storage.pages_count) :
       storage.pages[i] = NotModified(PH_hash(storage.addr, i, Zeros32))
  /\ get_state(storage) = State_empty
  /\ modified_pages_count(storage.pages) = 0

\* C13 as claimed: opening a storage at the all-zero state leaves the store
\* alone, makes every slot Clean with the hash of (address, i, 32 zero bytes),
\* get_state() the all-zero state, no page Dirty, and read_page(i) is None
\* for every i.
C13_OpenAtZero_Claimed ==
  [][(lastOp'.op = "open" /\ lastOp'.state = State_empty) =>
       /\ lastOp'.ok
       /\ kv' = kv
       /\ OpenedAtZero(st'[Last'])
       /\ \A i \in Idx(st'[Last'].pages_count) :
            PagesStorage_read_page(kv', st'[Last'].pages, i) = [ok |-> TRUE, read |-> None]]_vars

\* C13 as amended: the same, but read_page(i) is None only while the store
\* has no entry under the zero-page hash of page i; once a commit has stored
\* an explicitly written page of 32 zero bytes it is Some of those bytes.
C13_OpenAtZero ==
  [][(lastOp'.op = "open" /\ lastOp'.state = State_empty) =>
       /\ lastOp'.ok
       /\ kv' = kv
       /\ OpenedAtZero(st'[Last'])
       /\ \A i \in Idx(st'[Last'].pages_count) :
            PagesStorage_read_page(kv', st'[Last'].pages, i) =
              [ok |-> TRUE,
               read |-> IF PH_hash(st'[Last'].addr, i, Zeros32) \in DOMAIN kv'
                          THEN Some(Zeros32) ELSE None]]_vars

\* a two-page storage was just opened at the all-zero state over a store that
\* holds an explicitly written zero page and another page
C13_Witness ==
  /\ lastOp.op = "open" /\ lastOp.ok /\ lastOp.state = State_empty
  /\ st[Last].pages_count = 2
  /\ \E i \in Idx(2) : PH_hash(st[Last].addr, i, Zeros32) \in DOMAIN kv
  /\ \E i \in Idx(2) : PH_hash(st[Last].addr, i, Zeros32) \notin DOMAIN kv

\* C14: reopening reconstructs the digests: for every commit that produced a
\* state S, a storage opened afterwards at S with the same address and page
\* count has every slot Clean, with the hash the slot held in the committing
\* storage at the time of the commit.
C14_ReopenReconstructs ==
  \A c \in log :
    /\ Reopen(c).ok
    /\ DOMAIN Reopen(c).pages = Idx(c.pc)
    /\ \A i \in Idx(c.pc) :
         /\ Reopen(c).pages[i].tag = "NotModified"
         /\ PagesStateStorage_get_page_hash(Reopen(c).pages, i) =
              [ok |-> TRUE, hash |-> Some(c.hashes[i])]

\* a two-page commit with two different page hashes was followed by another
\* commit with another root
C14_Witness ==
  \E c, d \in log :
    /\ c.at < d.at /\ c.root # d.root
    /\ c.pc = 2 /\ c.hashes[0][4] # c.hashes[1][4]

\* C15: opening a storage at a non-zero state the store has no entry for
\* panics: the handle holds no storage afterwards and the store is unchanged.
C15_StateNotFound ==
  [][(lastOp'.op = "open" /\ lastOp'.state # State_empty /\ lastOp'.state \notin DOMAIN kv) =>
       /\ ~lastOp'.ok
       /\ ~st'[Last'].alive
       /\ kv' = kv]_vars

\* an open at a state the store does not hold has just panicked, over a store
\* that holds other states
C15_Witness ==
  /\ lastOp.op = "open" /\ ~lastOp.ok
  /\ lastOp.state # State_empty /\ lastOp.state \notin DOMAIN kv
  /\ \E k \in DOMAIN kv : k[1] = "KH"

\* C16: no operation but commit changes the store, and write_page, clear,
\* read_page and get_page_hash leave get_state() as it is; a storage just
\* opened reports the state it was opened at.
C16_NoMutationBeforeCommit ==
  [][LET s == Last' IN
     /\ (lastOp'.op # "commit" \/ ~lastOp'.ok) => kv' = kv
     /\ lastOp'.op \in {"write_page", "clear", "read_page", "get_page_hash"} =>
          get_state(st'[s]) = get_state(st[s])
     /\ (lastOp'.op = "open" /\ lastOp'.ok) => get_state(st'[s]) = lastOp'.state]_vars

\* a storage over a store that holds a committed state was written to and
\* then cleared, without a commit
C16_Witness ==
  /\ lastOp.op = "clear" /\ lastOp.ok
  /\ log # {}
  /\ gh[Last].dirtied
  /\ get_state(st[Last]) \in DOMAIN kv

\* C17: after a commit no slot is Dirty, every slot that was Dirty is Clean
\* with the hash it had while Dirty, every Clean slot is unchanged, and
\* get_state() is the state hash of the slot hashes.
C17_CommitCleans ==
  [][Committed(lastOp') =>
       LET s == Last' IN
       /\ modified_pages_count(st'[s].pages) = 0
       /\ DOMAIN st'[s].pages = DOMAIN st[s].pages
       /\ \A i \in DOMAIN st[s].pages :
            st'[s].pages[i] = NotModified(st[s].pages[i].ph)
       /\ get_state(st'[s]) =
            KH_hash([j \in 1..st[s].pages_count |-> st[s].pages[j - 1].ph])]_vars

\* a storage opened at a committed state has committed with one Dirty and
\* one Clean page
C17_Witness ==
  /\ Committed(lastOp)
  /\ \E c \in log : /\ c.at = nops - 1
                    /\ c.from # State_empty
                    /\ c.pc = 2
                    /\ Len(c.batch) = 2
                    /\ c.root # c.from

\* C18: read_page(i) on a Clean slot whose hash is not the zero-page hash of
\* (address, i) and for which the store has no entry panics.
C18_PageBytesMissing ==
  (/\ lastOp.op = "read_page"
   /\ InBounds(st[Last].pages, lastOp.idx)
   /\ st[Last].pages[lastOp.idx].tag = "NotModified"
   /\ st[Last].pages[lastOp.idx].ph # PH_hash(st[Last].addr, lastOp.idx, Zeros32)
   /\ st[Last].pages[lastOp.idx].ph \notin DOMAIN kv) => ~lastOp.ok

\* C19: a transaction that ends with a receipt with success = false (the
\* function failed, or returned a value that is not an integer) has written
\* no state root and no page to the store.
C19_FailureWritesNothing ==
  [][(/\ lastOp'.op = "exec_app"
      /\ lastOp'.receipt # None
      /\ ~lastOp'.receipt[1].success) => kv' = kv]_vars

\* C20: read_page, write_page and get_page_hash with a page index that is not
\* below the page count panic and leave the slots, the state and the store
\* unchanged.
C20_OutOfRange ==
  [][(/\ lastOp'.op \in {"read_page", "write_page", "get_page_hash"}
      /\ lastOp'.idx >= st[Last'].pages_count) =>
       /\ ~lastOp'.ok
       /\ lastOp'.read = None /\ lastOp'.hash = None
       /\ st' = st
       /\ kv' = kv]_vars

\* write_page with an index past the end has just panicked on a storage that
\* has a Dirty page
C20_Witness ==
  /\ lastOp.op = "write_page" /\ ~lastOp.ok
  /\ lastOp.idx >= st[Last].pages_count
  /\ Dirty(Last) # {}

\* the value of the last entry for key k in the batch
LastFor(changes, k) ==
  LET js == {j \in DOMAIN changes : changes[j][1] = k}
      last == CHOOSE j \in js : \A i \in js : i <= j
  IN changes[last][2]

\* C21: store(changes) applies every entry of the ordered batch: afterwards
\* get(k) is, for a key of the batch, the value of the last entry for k in the
\* batch, and for any other key what it was before; get does not change the
\* store.
C21_StoreAppliesBatch ==
  [][/\ lastOp'.op = "store" =>
          \A k \in RawKeys :
            IF \E j \in DOMAIN lastOp'.changes : lastOp'.changes[j][1] = k
              THEN KV_get(kv', k) = Some(LastFor(lastOp'.changes, k))
              ELSE KV_get(kv', k) = KV_get(kv, k)
     /\ lastOp'.op = "get" =>
          /\ kv' = kv
          /\ lastOp'.read = IF lastOp'.key \in DOMAIN kv THEN Some(kv[lastOp'.key]) ELSE None]_vars

\* a batch with two different values for one key was stored over a store that
\* held another value for it, and a key the batch does not name
C21_Witness ==
  /\ lastOp.op = "store"
  /\ Len(lastOp.changes) = 2
  /\ lastOp.changes[1][1] = "abc" /\ lastOp.changes[2][1] = "abc"
  /\ lastOp.changes[1][2] = "def" /\ lastOp.changes[2][2] = "uvw"
  /\ "xyz" \in DOMAIN kv
  /\ nops = 3

\* no commit of the contract of storage s has stored an entry for page i
NeverStored(s, i) ==
  \A c \in log :
    c.addr = st[s].addr =>
      \A j \in DOMAIN c.batch : ~(c.batch[j][1][1] = "PH" /\ c.batch[j][1][3] = i)

\* C22: on the same storage, right after commit, read_page(i) returns the
\* bytes last written to page i (writes discarded by clear not counted, None
\* read as the zero page), and None for a page no commit has ever stored.
C22_ReadAfterCommit ==
  Committed(lastOp) =>
    \A i \in Idx(st[Last].pages_count) :
      LET r == PagesStorage_read_page(kv, st[Last].pages, i) IN
      /\ r.ok
      /\ Canon(r.read) = gh[Last].content[i]
      /\ NeverStored(Last, i) => r.read = None

\* C23: a storage that open has returned has no Uninitialized slot, whatever
\* the state and the page count it was opened with.
C23_NoUninitialized ==
  \A s \in Storages : st[s].alive => ~HasUninitialized(st[s].pages)

\* C24: an open at a non-zero state returns a storage only if the digest
\* vector stored under the state is exactly 32 * page_count bytes long; with a
\* shorter or a longer vector it panics.
C24_ExactLength ==
  (lastOp.op = "open" /\ lastOp.ok /\ lastOp.state # State_empty) =>
     ByteLen(kv, lastOp.state) = 32 * st[Last].pages_count

\* C25: write_page(i, bytes) with i below the page count makes slot i Dirty
\* with the hash of (address, i, bytes) and the bytes as buffer, so that
\* get_page_hash(i) returns that hash; the other slots, get_state() and the
\* store are unchanged.
C25_WritePageFrame ==
  [][(lastOp'.op = "write_page" /\ lastOp'.ok) =>
       LET s == Last'
           i == lastOp'.idx
           bytes == gh'[s].content[i]
       IN /\ st'[s].pages[i] = Modified(PH_hash(st[s].addr, i, bytes), bytes)
          /\ PagesStateStorage_get_page_hash(st'[s].pages, i) =
               [ok |-> TRUE, hash |-> Some(PH_hash(st[s].addr, i, bytes))]
          /\ DOMAIN st'[s].pages = DOMAIN st[s].pages
          /\ \A j \in DOMAIN st[s].pages : j # i => st'[s].pages[j] = st[s].pages[j]
          /\ get_state(st'[s]) = get_state(st[s])
          /\ kv' = kv]_vars

\* page 1 of a two-page storage opened at a committed state was just written
\* while page 0 was Dirty
C25_Witness ==
  /\ lastOp.op = "write_page" /\ lastOp.ok /\ lastOp.idx = 1
  /\ st[Last].pages_count = 2
  /\ Dirty(Last) = {0, 1}
  /\ st[Last].state # State_empty

\* C26: the batch a commit hands to the store has the state entry first,
\* followed by one entry for each Dirty page and no other, in strictly
\* ascending page-index order.
C26_BatchOrder ==
  [][Committed(lastOp') =>
       LET s == Last'
           b == (CHOOSE c \in log' : c.at = nops).batch
       IN /\ Len(b) = 1 + Cardinality(Dirty(s))
          /\ b[1] = <<st'[s].state, [j \in 1..st[s].pages_count |-> st[s].pages[j - 1].ph]>>
          /\ \A i \in Dirty(s) :
               b[2 + Cardinality({k \in Dirty(s) : k < i})] =
                 <<st[s].pages[i].ph, st[s].pages[i].data>>]_vars

\* a commit with two Dirty pages holding different bytes has happened on a
\* storage opened at a committed state
C26_Witness ==
  /\ Committed(lastOp)
  /\ \E c \in log : /\ c.at = nops - 1
                    /\ Len(c.batch) = 3
                    /\ c.batch[2][2] # c.batch[3][2]
                    /\ c.from # State_empty

\* C27 as claimed: no commit writes an entry under the zero-page hash of any
\* page, whatever bytes are written to the pages.
C27_NoZeroPageEntry_Claimed ==
  \A s \in Storages : \A i \in Idx(MaxPages) :
    st[s].alive => PH_hash(st[s].addr, i, Zeros32) \notin DOMAIN kv

\* C27 as amended: a commit writes an entry under the zero-page hash of page i
\* exactly when slot i is Dirty with 32 zero bytes written to it; a page that
\* is not Dirty gets no entry.
C27_NoZeroPageEntry ==
  [][Committed(lastOp') =>
       LET s == Last'
           b == (CHOOSE c \in log' : c.at = nops).batch
       IN \A i \in Idx(st[s].pages_count) :
            (\E j \in DOMAIN b : b[j][1] = PH_hash(st[s].addr, i, Zeros32))
              <=> (i \in Dirty(s) /\ st[s].pages[i].data = Zeros32)]_vars

\* a two-page commit stored the zero page written to one page and stored
\* nothing for the other page, which holds its zero-page hash
C27_Witness ==
  /\ Committed(lastOp)
  /\ st[Last].pages_count = 2
  /\ \E i, k \in Idx(2) :
       /\ i # k
       /\ PH_hash(st[Last].addr, i, Zeros32) \in DOMAIN kv
       /\ PH_hash(st[Last].addr, k, Zeros32) \notin DOMAIN kv
       /\ st[Last].pages[k].ph = PH_hash(st[Last].addr, k, Zeros32)
       /\ \E c \in log : c.at = nops - 1 /\ Len(c.batch) = 2

\* C28 as claimed: the state after a commit equals the state S before it if
\* and only if the slot hashes at the commit are the ones the storage had at
\* S, for a storage at the all-zero state as well.
C28_SameStateIffSameDigests_Claimed ==
  [][Committed(lastOp') =>
       LET s == Last' IN
       (st'[s].state = st[s].state) <=> (HashesOf(st[s].pages) = gh[s].prior)]_vars

\* C28 as amended: for a storage at a non-zero state S the state after a
\* commit equals S if and only if the slot hashes at the commit are the ones
\* the storage had at S; for a storage at the all-zero state the state after
\* a commit is never the all-zero state.
C28_SameStateIffSameDigests ==
  [][Committed(lastOp') =>
       LET s == Last' IN
       IF st[s].state # State_empty
         THEN (st'[s].state = st[s].state) <=> (HashesOf(st[s].pages) = gh[s].prior)
         ELSE st'[s].state # st[s].state]_vars

\* a storage at a committed state has committed a page written back to the
\* bytes it held, and kept its state
C28_Witness ==
  /\ Committed(lastOp)
  /\ \E c \in log : /\ c.at = nops - 1
                    /\ c.from # State_empty
                    /\ c.root = c.from
                    /\ Len(c.batch) = 2
                    /\ c.batch[2][2] # Zeros32

\* C29: when the call of store fails during a commit the storage is as before
\* the commit: get_state() is the previous state, every slot is as it was (the
\* Dirty ones Dirty with their bytes), and the commit has panicked.
C29_StoreFailureKeepsStorage ==
  [][lastOp'.op = "commit_store_failed" =>
       LET s == Last' IN
       /\ ~lastOp'.ok
       /\ get_state(st'[s]) = get_state(st[s])
       /\ st'[s].pages = st[s].pages
       /\ Dirty(s) = {i \in DOMAIN st'[s].pages : st'[s].pages[i].tag = "Modified"}]_vars

\* the store has just failed in the commit of a storage at a committed state
\* that has a Dirty page
C29_Witness ==
  /\ lastOp.op = "commit_store_failed"
  /\ Dirty(Last) # {}
  /\ st[Last].state # State_empty

\* C30: whenever a reader of the shared store finds the entry of a state root,
\* the store also holds the entry of every page that was Dirty in the commit
\* that wrote it, the commit in progress included.
C30_CommitVisibility ==
  (lastOp.op = "observe" /\ lastOp.read # None) =>
     /\ \A c \in log :
          c.root = lastOp.state => \A j \in DOMAIN c.batch : c.batch[j][1] \in DOMAIN kv
     /\ (io.borrowed /\ io.new_state = lastOp.state) =>
          \A j \in DOMAIN io.entries : io.entries[j][1] \in DOMAIN kv

\* a reader has found the root of a commit with two Dirty pages
C30_Witness ==
  /\ lastOp.op = "observe" /\ lastOp.read # None
  /\ \E c \in log : c.root = lastOp.state /\ Len(c.batch) = 3

\* C33: the store only grows under the storage layer: no operation removes a
\* key, no operation changes the value under a key the store already holds,
\* and every entry of every commit ever made (the digest vector under its
\* state root, the bytes under each page hash) stays in the store as written.
C33_StoreOnlyGrows ==
  [][/\ \A k \in DOMAIN kv : k \in DOMAIN kv' /\ kv'[k] = kv[k]
     /\ \A c \in log' : \A j \in DOMAIN c.batch :
          KV_get(kv', c.batch[j][1]) = Some(c.batch[j][2])]_vars

\* a commit over a store that holds an earlier commit has stored again a key
\* of that commit and added a key the store did not hold
C33_Witness ==
  /\ Committed(lastOp)
  /\ \E c, d \in log :
       /\ d.at = nops - 1
       /\ c.at < d.at
       /\ \E j \in DOMAIN d.batch : \E l \in DOMAIN c.batch : d.batch[j][1] = c.batch[l][1]
       /\ \E j \in DOMAIN d.batch : \A e \in log : \A l \in DOMAIN e.batch :
            e.at < d.at => e.batch[l][1] # d.batch[j][1]

\* C34: when a page is written several times before a commit, the commit
\* stores exactly one entry for that page, the last bytes written under their
\* hash, and creates no key for the hash of any other content of that page.
C34_LastWriteWins ==
  [][Committed(lastOp') =>
       LET s == Last'
           b == (CHOOSE c \in log' : c.at = nops).batch
       IN \A i \in Dirty(s) :
            LET last == gh[s].content[i]
                IsPage(k) == k[1] = "PH" /\ k[3] = i
            IN /\ Cardinality({j \in DOMAIN b : IsPage(b[j][1])}) = 1
               /\ \E j \in DOMAIN b : b[j] = <<PH_hash(st[s].addr, i, last), last>>
               /\ \A k \in (DOMAIN kv') \ (DOMAIN kv) :
                    IsPage(k) => k = PH_hash(st[s].addr, i, last)]_vars

\* a storage was constructed, one page of it was written twice with
\* different bytes, the second not the zero page, and it was committed
C34_Witness ==
  /\ Committed(lastOp)
  /\ \E c \in log :
       /\ c.at = nops - 1
       /\ c.run # None
       /\ Len(c.run[1].writes) = 2
       /\ c.run[1].writes[1][1] = c.run[1].writes[2][1]
       /\ c.run[1].writes[1][2] # c.run[1].writes[2][2]
       /\ PH_hash(c.addr, c.run[1].writes[1][1], c.run[1].writes[1][2]) \notin DOMAIN kv

\* C35: a transaction commits the storage only when its function was called
\* and returned without error, and at most once; the constructor call of a
\* spawn whose app exports no constructor succeeds with the all-zero state,
\* and commits and stores nothing.
C35_CommitAfterSuccess ==
  [][lastOp'.op = "exec_app" =>
       LET tx == lastOp'.tx[1] IN
       /\ tx.commits <= 1
       /\ Cardinality(log' \ log) <= 1
       /\ (kv' # kv \/ log' # log \/ tx.commits > 0) => (tx.start = "call" /\ tx.call_ok)
       /\ (tx.is_ctor /\ tx.start = "FuncNotFound") =>
            /\ lastOp'.ok
            /\ lastOp'.receipt = Some([success |-> TRUE, new_state |-> Some(State_empty)])
            /\ lastOp'.spawn = Some([panic |-> FALSE, ok |-> TRUE, state |-> Some(State_empty)])
            /\ kv' = kv
            /\ log' = log]_vars

\* an app without constructor was spawned over a store that holds the commit
\* of an earlier transaction
C35_Witness ==
  /\ lastOp.op = "exec_app"
  /\ lastOp.tx[1].is_ctor
  /\ lastOp.tx[1].start = "FuncNotFound"
  /\ kv # MemKVStore_new
  /\ log # {}

\* C36: when the constructor call of a spawn ends with a receipt of failure
\* (the template did not compile or instantiate, the constructor failed, or
\* it returned a value that is not an integer), call_ctor returns an error
\* and does not panic.
C36_CtorFailureReported ==
  (/\ lastOp.op = "exec_app"
   /\ lastOp.tx # None
   /\ lastOp.tx[1].is_ctor
   /\ lastOp.receipt # None
   /\ ~lastOp.receipt[1].success) =>
     /\ lastOp.spawn # None
     /\ ~lastOp.spawn[1].panic
     /\ ~lastOp.spawn[1].ok

Nibbles(bytes) ==
  [k \in 1..(2 * Len(bytes)) |->
     IF k % 2 = 1 THEN bytes[(k + 1) \div 2] \div 16 ELSE bytes[k \div 2] % 16]

Min(a, b) == IF a <= b THEN a ELSE b

RECURSIVE Concat(_)
Concat(slices) == IF slices = <<>> THEN <<>> ELSE Head(slices) \o Concat(Tail(slices))

\* C39: the buffer holds the concatenation of the slices written, len() is
\* their total length, and read(offset, len) returns the bytes at positions
\* offset .. offset + len - 1 when len > 0 and offset + len <= len(), and
\* panics with 'out-of-bounds' otherwise, for len = 0 as well.
C39_BufferReadWrite ==
  /\ buf.bytes = Concat(buf.written)
  /\ BufferMut_len(buf) = Len(Concat(buf.written))
  /\ buf.ret.kind # "none" =>
       IF buf.ret.len > 0 /\ buf.ret.offset + buf.ret.len <= BufferMut_len(buf)
         THEN /\ buf.ret.kind = "ok"
              /\ buf.ret.bytes =
                   [k \in 1..buf.ret.len |-> Concat(buf.written)[buf.ret.offset + k]]
         ELSE buf.ret.kind = "out-of-bounds"

\* C31: when one of two storages of a contract that are at the same state S
\* commits, the other one still has get_state() = S and, for every page, the
\* read_page result (a panic, or the bytes, None read as the zero page) and
\* the get_page_hash result it had before; and every state committed so far,
\* by either storage, reopens with the page contents of its commit.
C31_SnapshotConsistency ==
  [][Committed(lastOp') =>
       LET s == Last' IN
       /\ \A o \in Storages \ {s} :
            (st[o].alive /\ st[o].addr = st[s].addr /\ st[o].state = st[s].state) =>
              /\ get_state(st'[o]) = st[o].state
              /\ \A i \in Idx(st[o].pages_count) :
                   LET before == PagesStorage_read_page(kv, st[o].pages, i)
                       after == PagesStorage_read_page(kv', st'[o].pages, i)
                   IN /\ after.ok = before.ok
                      /\ Canon(after.read) = Canon(before.read)
                      /\ PagesStateStorage_get_page_hash(st'[o].pages, i) =
                           PagesStateStorage_get_page_hash(st[o].pages, i)
       /\ \A c \in log' :
            LET r == init_pages_state(kv', c.addr, c.root, c.pc) IN
            /\ r.ok
            /\ \A i \in Idx(c.pc) : Canon(read_page(kv', r.pages, i)) = c.content[i]]_vars

\* C32: with the storages of two contracts writing and committing over one
\* store in any order, every state a contract has committed reopens, under
\* the address of that contract, with the slot hashes of its commit and with
\* the bytes the contract had last written to each page (the zero page for a
\* page never written).
C32_NoInterference ==
  \A c \in log :
    LET r == init_pages_state(kv, c.addr, c.root, c.pc) IN
    /\ r.ok
    /\ HashesOf(r.pages) = c.hashes
    /\ \A i \in Idx(c.pc) :
         LET p == PagesStorage_read_page(kv, r.pages, i) IN
         p.ok /\ Canon(p.read) = c.content[i]

\* both contracts wrote different bytes to page 0 before either committed,
\* then one committed, the other wrote the bytes of the first to page 1 and
\* committed
C32_Witness ==
  /\ Committed(lastOp)
  /\ \E c, d \in log :
       /\ c.addr = 17 /\ d.addr = 18
       /\ c.at = 2 /\ d.at = 4
       /\ c.content[0] = "abc" /\ d.content[0] = "def" /\ d.content[1] = "abc"
       /\ c.root # d.root

====
